---- MODULE Spec2Model ----
(***************************************************************************)
(* MonkaCraft: the Content Store (js/content.js) and the EmailJS gateway   *)
(* (js/emailjs.js) as state machines.                                      *)
(*                                                                         *)
(* JSON documents (the value under a localStorage key, the body of a       *)
(* fetched file, an imported file) are modelled by the shape the program   *)
(* reads: kind is "absent" (no value), "garbage" (text JSON.parse          *)
(* rejects), "scalar" (null, a number, a string, a boolean), "array" or    *)
(* "object"; arrs is the set of the four collection keys that hold an      *)
(* array; the four collections; and the cloudBackupUrl key of config.json. *)
(***************************************************************************)
EXTENDS Integers, Sequences, FiniteSets, TLC

\* ---------------------------------------------------------------- bounds
MaxEntries == 2      \* entries in the store at any time
MaxCallerId == 2     \* ids a caller supplies: 1..MaxCallerId
MaxGen == 2          \* ids _generateId can draw
MaxDay == 2          \* calendar days the clock runs through
MaxInit == 2         \* init() promises tracked at a time
MaxUploads == 1      \* mirror uploads in flight at a time
MaxSends == 2        \* send() promises pending at a time
MaxLogins == 2       \* login() calls waiting for their hash at a time
MaxIntervals == 2    \* cooldown intervals running at a time
MaxFailures == 6     \* failures counted before another login is started
MaxPanelInits == 1   \* calls of AdminPanel.init() on the page
MaxHides == 1        \* timeouts that hide the auth screen pending at a time
StepMs == 200        \* milliseconds in a step of the page's clock
MaxScripts == 2      \* SDK script elements loading at a time

\* ------------------------------------------------------ program constants
SYNC_DELAY == 2      \* setTimeout(_syncToCloud, 2000), in seconds
MAX_MESSAGES_PER_DAY == 10
PREVIEW_LENGTH == 50 \* message.length > 50 ? message.substring(0, 50) + '...'

\* the page's clock advances in steps of StepMs milliseconds
TickSteps == 1000 \div StepMs
SyncSteps == SYNC_DELAY * TickSteps

\* ------------------------------------------------------------- entries
NoId == 0            \* id absent or empty: !entry.id
NoDate == 0          \* date absent or empty: !entry.date
FieldNames == {"id", "type", "title", "date", "isLive"}

Entry(id, type, title, date, isLive) ==
    [id |-> id, type |-> type, title |-> title, date |-> date, isLive |-> isLive]

BlankEntry == Entry(NoId, "", "", NoDate, "absent")

CallerIds == 1..MaxCallerId
GenIds == {100 + n : n \in 1..MaxGen}
Ids == {NoId} \cup CallerIds \cup GenIds

\* ---------------------------------------------------------- collections
\* Object.keys(TYPE_MAP).map(t => TYPE_MAP[t]): the search order of update/delete
PluralKeys == <<"videos", "screenshots", "posts", "streams">>
CollKeys == {PluralKeys[k] : k \in 1..Len(PluralKeys)}

\* TYPE_MAP[type]: the plural key of an own property; "inherited" for a name
\* found on Object.prototype (a truthy value that is no collection key);
\* "" (undefined) for any other name.
TYPE_MAP(type) ==
    CASE type = "video" -> "videos"
      [] type = "screenshot" -> "screenshots"
      [] type = "post" -> "posts"
      [] type = "stream" -> "streams"
      [] type \in {"constructor", "toString", "hasOwnProperty"} -> "inherited"
      [] OTHER -> ""

\* ------------------------------------------------------ JSON documents
Doc(kind, arrs, v, sc, p, st, url) ==
    [kind |-> kind, arrs |-> arrs, videos |-> v, screenshots |-> sc,
     posts |-> p, streams |-> st, cloudBackupUrl |-> url]

NoUrl == ""
NoText == Doc("absent", {}, <<>>, <<>>, <<>>, <<>>, NoUrl)
Garbage == Doc("garbage", {}, <<>>, <<>>, <<>>, <<>>, NoUrl)
ScalarDoc == Doc("scalar", {}, <<>>, <<>>, <<>>, <<>>, NoUrl)
ArrayDoc == Doc("array", {}, <<>>, <<>>, <<>>, <<>>, NoUrl)
EmptyObject == Doc("object", {}, <<>>, <<>>, <<>>, <<>>, NoUrl)

\* _data === null before init
NullData == Doc("null", {}, <<>>, <<>>, <<>>, <<>>, NoUrl)

\* JSON.parse(text): throws on garbage, otherwise the value the text denotes
ParseOk(text) == text.kind \in {"scalar", "array", "object"}

\* a faulty normalization that keeps an object as parsed and adds no missing
\* collection; the bootstrap property must tell it from _ensureStructure
EnsureObject(obj) ==
    IF obj.kind \in {"object", "array"} THEN obj ELSE EmptyObject

\* _ensureStructure(obj): a non-object becomes {}; every collection key that
\* holds no array gets a new empty array; an array passes typeof === 'object'
\* and gets the four collections as named properties.
EnsureStructure(obj) ==
    LET o == IF obj.kind \in {"object", "array"} THEN obj ELSE EmptyObject
    IN [k \in DOMAIN o |->
          CASE k = "arrs" -> CollKeys
            [] k \in CollKeys -> IF k \in o.arrs THEN o[k] ELSE <<>>
            [] OTHER -> o[k]]

\* JSON.stringify(_data): an object keeps its keys; of an array only the
\* indexed elements are written, its named properties are not.
Stringify(d) ==
    IF d.kind = "array" THEN ArrayDoc
    ELSE IF d.kind = "null" THEN ScalarDoc
    ELSE d

Entries(d) == d.videos \o d.screenshots \o d.posts \o d.streams
Count(d) == Len(Entries(d))
UsedIds(d) == {Entries(d)[i].id : i \in 1..Count(d)}

\* --------------------------------------------------------------- inputs
SeedDoc ==
    Doc("object", {"videos", "posts", "streams"},
        <<Entry(1, "video", "a", 1, "absent")>>, <<>>, <<>>,
        <<Entry(2, "stream", "a", 1, "true")>>, NoUrl)
PartialDoc ==
    Doc("object", {"posts"}, <<>>, <<>>,
        <<Entry(2, "post", "b", 2, "absent")>>, <<>>, NoUrl)
SnapshotTexts == {Garbage, PartialDoc, SeedDoc}

ConfigUrl == "uConfig"
LocalUrl == "uLocal"
RotatedUrl == "uRotated"
ConfigTexts ==
    {Garbage, EmptyObject,
     Doc("object", {}, <<>>, <<>>, <<>>, <<>>, ConfigUrl)}

AddInputs ==
    {Entry(NoId, "video", "a", NoDate, "absent"),
     Entry(1, "post", "a", 1, "absent"),
     Entry(1, "stream", "b", 2, "false"),
     Entry(NoId, "screenshot", "b", 2, "absent"),
     Entry(2, "", "a", 1, "absent"),
     Entry(2, "bogus", "a", 1, "absent"),
     Entry(2, "constructor", "a", 1, "absent")}

\* updatedFields: the keys it lists and their values
Fields(keys, vals) == [keys |-> keys, vals |-> vals]
UpdateInputs ==
    {Fields({}, BlankEntry),
     Fields({"title"}, Entry(NoId, "", "X", NoDate, "absent")),
     Fields({"id", "type"}, Entry(2, "post", "", NoDate, "absent"))}

\* ---------------------------------------------------------------- state
VARIABLES
    data,        \* _data, the in-memory snapshot
    stored,      \* localStorage['monkacraft_content']
    storageOk,   \* whether localStorage.setItem succeeds (FALSE: it throws)
    cloudUrl,    \* localStorage['monkacraft_cloud_json_url']
    cloudCfg,    \* monkacraft_cloud_name and monkacraft_upload_preset are both set
    syncTimer,   \* clock steps until _cloudSyncTimer fires; 0: no timer pending
    uploads,     \* mirror uploads in flight
    inits,       \* the init() promises: position in the fetch chain
    today,       \* the calendar day of new Date()
    ret,         \* what the last Content Store call returned
    history,     \* localStorage['monkacraft_email_sent_history'], newest first
    mailCfg,     \* the three EmailJS keys of localStorage
    sdkLoaded, sdkLoading, sdkLoadPromise, scripts,   \* the SDK loader of emailjs.js
    emailjs,     \* whether the loaded script defined the global emailjs
    sends,       \* the send() promises that passed the checks and are pending
    mret,        \* how the last gateway call or promise ended
    sentToday,   \* sends resolved today; -1 once clearHistory() ran today
    other,       \* _data of a second tab of the same profile
    exported,    \* the file exportJSON() downloaded last: its text, and the
                 \* snapshot it was written from
    got,         \* the array the last getAll or getLatest returned, as the
                 \* caller holds it: references <<collection, index>> to the
                 \* entry objects of the store
    attempts,    \* _attempts of admin.js
    cooldownRemaining,   \* _cooldownRemaining
    cooldownTimer,       \* _cooldownTimer: an interval id, 0 for null
    intervals,   \* the setInterval timers that are running, in the order they
                 \* fire: id, and the clock steps until the interval is due
    logins,      \* the login() calls waiting for hashPassphrase
    authed,      \* sessionStorage['monkacraft_auth'] === 'true'
    btnDisabled, \* auth-enter-btn.disabled
    lockAge,     \* clock steps since the lock began; -1 when no lock is timed
    ready,       \* the init() promises whose .then in AdminPanel.init() has run:
                 \* one set of listeners on the auth screen for each
    authShown,   \* the auth screen is displayed
    hides        \* the timeouts that hide the auth screen: clock steps until due

loginVars == <<attempts, cooldownRemaining, cooldownTimer, intervals, logins,
               authed, btnDisabled, lockAge, ready, authShown, hides>>
storeVars == <<data, stored, cloudUrl, syncTimer, uploads, inits, ret>>
mailVars == <<history, mailCfg, sdkLoaded, sdkLoading, sdkLoadPromise, scripts, emailjs,
              sends, mret, sentToday>>
\* what no Content Store operation writes
outside == <<storageOk, cloudCfg, today, mailVars, got, other, exported, loginVars>>
\* what no gateway operation writes
mailOutside == <<storeVars, storageOk, cloudCfg, today, got, other, exported, loginVars>>
vars == <<storeVars, mailVars, storageOk, cloudCfg, today, got, other, exported, loginVars>>

Ret(op, res, out) == [op |-> op, res |-> res, out |-> out]
NoExport == [text |-> NoText, of |-> NullData]

Resp(kind, body) == [kind |-> kind, body |-> body]
NoResp == Resp("none", NoText)
Pending == Resp("pending", NoText)
InitRec(pc, resp, url) == [pc |-> pc, resp |-> resp, url |-> url]

\* _todayISO()
TodayISO == today

\* ----------------------------------------------------------- persistence
\* _load(): TRUE when localStorage holds text that parses
Load == ParseOk(stored)

\* _scheduleCloudSync(): clearTimeout, then setTimeout(_syncToCloud, 2000)
ScheduleCloudSync == syncTimer' = SyncSteps

\* _save(): setItem inside try/catch, then _scheduleCloudSync()
Save(d) ==
    /\ stored' = IF storageOk THEN Stringify(d) ELSE stored
    /\ ScheduleCloudSync

NoSave == UNCHANGED <<stored, syncTimer>>

\* a faulty _syncToCloud() that uploads without a remembered mirror URL
SyncToCloudNoUrl ==
    IF cloudCfg
      THEN uploads < MaxUploads /\ uploads' = uploads + 1
      ELSE uploads' = uploads

\* _syncToCloud(): no upload unless cloud name, preset and mirror URL are set
SyncToCloud ==
    IF cloudCfg /\ cloudUrl # NoUrl
      THEN uploads < MaxUploads /\ uploads' = uploads + 1
      ELSE uploads' = uploads

\* steps clock steps pass for the pending timer, which fires when its delay
\* has run out
SyncTimerRuns(steps) ==
    /\ syncTimer' = IF syncTimer > steps THEN syncTimer - steps ELSE 0
    /\ IF syncTimer \in 1..steps
         THEN SyncToCloud
         ELSE uploads' = uploads

\* a second passes on a page where nothing but the sync timer is timed
TimePasses ==
    /\ syncTimer > 0
    /\ SyncTimerRuns(TickSteps)
    /\ UNCHANGED <<data, stored, cloudUrl, inits, ret, outside>>

\* the upload's fetch settles: data.secure_url, a response without it, or a
\* network error; setItem throwing is caught by the chain's .catch
UploadSettles(url) ==
    /\ uploads > 0
    /\ uploads' = uploads - 1
    /\ cloudUrl' = IF url # NoUrl /\ storageOk THEN url ELSE cloudUrl
    /\ UNCHANGED <<data, stored, syncTimer, inits, ret, outside>>

\* ----------------------------------------------------------------- init
\* the slot a new init() promise is tracked in: the first one not pending
FreeSlot(i) ==
    /\ inits[i].pc \in {"idle", "done"}
    /\ \A j \in 1..(i - 1) : inits[j].pc \notin {"idle", "done"}

InitCall(i) ==
    /\ FreeSlot(i)
    /\ IF Load
         THEN /\ data' = EnsureStructure(stored)
              /\ inits' = [inits EXCEPT ![i] = InitRec("done", NoResp, NoUrl)]
         ELSE /\ data' = data
              /\ inits' = [inits EXCEPT ![i] = InitRec("config", Pending, NoUrl)]
    /\ ret' = Ret("init", "promise", BlankEntry)
    /\ UNCHANGED <<stored, cloudUrl, syncTimer, uploads, outside>>

\* a fetch issued by init settles: a network error, a response that is not
\* ok, or a body
Respond(i, r) ==
    /\ inits[i].pc \in {"config", "mirror", "seed"}
    /\ inits[i].resp = Pending
    /\ r.kind \in {"neterr", "http", "body"}
    /\ r.kind = "body" =>
         r.body \in (IF inits[i].pc = "config" THEN ConfigTexts ELSE SnapshotTexts)
    /\ r.kind # "body" => r.body = NoText
    /\ inits' = [inits EXCEPT ![i].resp = r]
    /\ UNCHANGED <<data, stored, cloudUrl, syncTimer, uploads, ret, outside>>

\* .then(function (json) {...}) and .catch(function (err) {...}) of init
InitResolve(i, json) ==
    /\ data' = EnsureStructure(json)
    /\ Save(data')
    /\ inits' = [inits EXCEPT ![i] = InitRec("done", NoResp, NoUrl)]

\* (config && config.cloudBackupUrl) || localStorage.getItem(CLOUD_JSON_KEY)
MirrorUrl(config) ==
    IF config.kind = "object" /\ config.cloudBackupUrl # NoUrl
      THEN config.cloudBackupUrl
      ELSE cloudUrl

\* the descriptor was read: fetch(cloudUrl) when a URL is known, else the seed
ConfigSettled(i, config) ==
    /\ inits' = [inits EXCEPT ![i] =
         IF MirrorUrl(config) # NoUrl
           THEN InitRec("mirror", Pending, MirrorUrl(config))
           ELSE InitRec("seed", Pending, NoUrl)]
    /\ UNCHANGED <<data, stored, syncTimer>>

\* r.ok ? r.json() : {} of the config.json fetch; a rejected fetch or json()
\* goes to the final .catch
ConfigStep(i, r) ==
    IF r.kind = "neterr" \/ (r.kind = "body" /\ ~ParseOk(r.body))
      THEN InitResolve(i, EmptyObject)
      ELSE ConfigSettled(i, IF r.kind = "http" THEN EmptyObject ELSE r.body)

\* fetch(cloudUrl): !r.ok throws; the inner .catch fetches the seed file
MirrorStep(i, r) ==
    IF r.kind = "body" /\ ParseOk(r.body)
      THEN InitResolve(i, r.body)
      ELSE /\ inits' = [inits EXCEPT ![i] = InitRec("seed", Pending, NoUrl)]
           /\ UNCHANGED <<data, stored, syncTimer>>

\* fetch(localPath): r.ok ? r.json() : {}; a rejection goes to the final .catch
SeedStep(i, r) ==
    IF r.kind = "body" /\ ParseOk(r.body)
      THEN InitResolve(i, r.body)
      ELSE InitResolve(i, EmptyObject)

\* the promise callbacks of init run on the settled fetch
InitStep(i) ==
    LET r == inits[i].resp IN
    /\ r.kind \in {"neterr", "http", "body"}
    /\ CASE inits[i].pc = "config" -> ConfigStep(i, r)
         [] inits[i].pc = "mirror" -> MirrorStep(i, r)
         [] inits[i].pc = "seed" -> SeedStep(i, r)
    /\ UNCHANGED <<cloudUrl, uploads, ret, outside>>

\* setCloudJsonUrl(url): setItem for a URL (it may throw), removeItem for ''
SetCloudJsonUrl(url) ==
    /\ cloudUrl' = IF url = NoUrl THEN NoUrl
                   ELSE IF storageOk THEN url ELSE cloudUrl
    /\ ret' = Ret("setCloudJsonUrl",
                  IF url # NoUrl /\ ~storageOk THEN "throw" ELSE "undefined",
                  BlankEntry)
    /\ UNCHANGED <<data, stored, syncTimer, uploads, inits, outside>>

\* ------------------------------------------------------ read operations
\* getAll(type): a copy of the collection, [] for an unknown type or before init
GetAll(type) ==
    IF TYPE_MAP(type) \notin CollKeys \/ data.kind = "null"
      THEN <<>>
      ELSE data[TYPE_MAP(type)]

\* getStats(): the four collection lengths
GetStats ==
    [k \in CollKeys |-> IF data.kind = "null" THEN 0 ELSE Len(data[k])]

\* the references to the entries of a collection, in stored order
Refs(key) == [i \in 1..Len(data[key]) |-> <<key, i>>]

\* the entry object a reference points to
Deref(r) == data[r[1]][r[2]]

\* a faulty sort that lets a later entry of equal date overtake an earlier
\* one; the getLatest property must tell it from the stable sort
InsertBeforeEqual(r, sorted) ==
    LET ahead == {j \in 1..Len(sorted) : Deref(sorted[j]).date > Deref(r).date}
    IN SubSeq(sorted, 1, Cardinality(ahead)) \o <<r>>
         \o SubSeq(sorted, Cardinality(ahead) + 1, Len(sorted))

\* the place Array.prototype.sort gives an element among those already sorted
\* with the comparator new Date(b.date) - new Date(a.date): behind every entry
\* that is not older (the sort is stable, ECMAScript 2019)
Insert(r, sorted) ==
    LET ahead == {j \in 1..Len(sorted) : Deref(sorted[j]).date >= Deref(r).date}
    IN SubSeq(sorted, 1, Cardinality(ahead)) \o <<r>>
         \o SubSeq(sorted, Cardinality(ahead) + 1, Len(sorted))

\* _sortByDateDesc(arr): a sorted copy of the array of references
RECURSIVE SortByDateDesc(_)
SortByDateDesc(arr) ==
    IF arr = <<>> THEN <<>>
    ELSE Insert(arr[Len(arr)], SortByDateDesc(SubSeq(arr, 1, Len(arr) - 1)))

\* what getAll(type) returns: a new array of the same entry objects
GetAllRefs(type) ==
    IF TYPE_MAP(type) \notin CollKeys \/ data.kind = "null"
      THEN <<>>
      ELSE Refs(TYPE_MAP(type))

\* getLatest(type, count): _sortByDateDesc(getAll(type)).slice(0, count)
GetLatest(type, count) ==
    LET sorted == SortByDateDesc(GetAllRefs(type))
    IN SubSeq(sorted, 1, IF count < Len(sorted) THEN count ELSE Len(sorted))

\* a faulty isLive that takes every truthy flag for live; the isLive property
\* must tell it from the strict comparison
IsLiveTruthy ==
    /\ data.kind # "null"
    /\ \E i \in 1..Len(data.streams) :
          data.streams[i].isLive \notin {"false", "absent"}

\* isLive(): some stream has isLive === true
IsLive ==
    /\ data.kind # "null"
    /\ \E i \in 1..Len(data.streams) : data.streams[i].isLive = "true"

\* the calls of the read operations; they write nothing of the store
GetAllCall(type) ==
    /\ got' = GetAllRefs(type)
    /\ ret' = Ret("getAll", type, BlankEntry)
    /\ UNCHANGED <<data, stored, syncTimer, cloudUrl, uploads, inits,
                   storageOk, cloudCfg, today, mailVars, other, exported, loginVars>>

GetLatestCall(type, count) ==
    /\ got' = GetLatest(type, count)
    /\ ret' = Ret("getLatest", type, BlankEntry)
    /\ UNCHANGED <<data, stored, syncTimer, cloudUrl, uploads, inits,
                   storageOk, cloudCfg, today, mailVars, other, exported, loginVars>>

IsLiveCall ==
    /\ ret' = Ret("isLive", IF IsLive THEN "true" ELSE "false", BlankEntry)
    /\ UNCHANGED <<data, stored, syncTimer, cloudUrl, uploads, inits, outside>>

\* what a caller can do to the array it was given: remove an element, reverse
\* the order, or assign a field of one of its entries, which is the entry
\* object of the store (slice() copies the array, not the entries)
CallerRemoves(j) ==
    /\ j \in 1..Len(got)
    /\ got' = SubSeq(got, 1, j - 1) \o SubSeq(got, j + 1, Len(got))
    /\ UNCHANGED <<storeVars, storageOk, cloudCfg, today, mailVars, other, exported, loginVars>>

CallerReverses ==
    /\ Len(got) > 1
    /\ got' = [j \in 1..Len(got) |-> got[Len(got) + 1 - j]]
    /\ UNCHANGED <<storeVars, storageOk, cloudCfg, today, mailVars, other, exported, loginVars>>

CallerSetsTitle(j, title) ==
    /\ j \in 1..Len(got)
    /\ data' = [data EXCEPT ![got[j][1]][got[j][2]].title = title]
    /\ UNCHANGED <<stored, syncTimer, cloudUrl, uploads, inits, ret, outside>>

\* ----------------------------------------------------- write operations
\* _generateId(): a random UUID, taken to differ from every id in the store
GenerateId(d) == GenIds \ UsedIds(d)

\* what add() stores: the caller's entry with id and date filled in
Stamp(entry, newId) ==
    [entry EXCEPT !.id = IF entry.id = NoId THEN newId ELSE entry.id,
                  !.date = IF entry.date = NoDate THEN TodayISO ELSE entry.date]

\* _data[key].push(entry); _save(); return entry
AddPush(key, entry, newId) ==
    LET d0 == IF data.kind = "null" THEN EnsureStructure(EmptyObject) ELSE data IN
    /\ Count(data) < MaxEntries
    /\ data' = [d0 EXCEPT ![key] = Append(@, Stamp(entry, newId))]
    /\ Save(data')
    /\ ret' = Ret("add", "entry", Stamp(entry, newId))

\* add(entry); hasEntry = FALSE is add(null) or add(undefined)
Add(hasEntry, entry, newId) ==
    LET key == TYPE_MAP(entry.type) IN
    /\ IF ~hasEntry \/ entry.type = "" \/ key = ""
         THEN /\ ret' = Ret("add", "null", BlankEntry)
              /\ UNCHANGED data
              /\ NoSave
         ELSE IF key \notin CollKeys
         THEN \* _data[key] is undefined and .push throws a TypeError, after
              \* _data was created
              /\ ret' = Ret("add", "throw", BlankEntry)
              /\ data' = IF data.kind = "null"
                           THEN EnsureStructure(EmptyObject) ELSE data
              /\ NoSave
         ELSE AddPush(key, entry, newId)
    /\ UNCHANGED <<cloudUrl, uploads, inits, outside>>

\* ------------------------------------------------- a second tab
\* init() in a second tab of the profile whose local store holds a snapshot,
\* called for the first time or again: _load() and _ensureStructure replace
\* that tab's own _data by what is persisted
OtherInit ==
    /\ Load
    /\ other' = EnsureStructure(stored)
    /\ UNCHANGED <<storeVars, storageOk, cloudCfg, today, mailVars, got, exported, loginVars>>

\* a faulty add of the second tab that reads the persisted snapshot again
\* before it pushes the entry
OtherAddRefreshing(entry, newId) ==
    LET key == TYPE_MAP(entry.type)
        base == IF other.kind = "null" THEN EnsureStructure(EmptyObject) ELSE other
        fresh == IF Load THEN EnsureStructure(stored) ELSE base IN
    /\ Count(fresh) < MaxEntries
    /\ other' = [fresh EXCEPT ![key] = Append(@, Stamp(entry, newId))]
    /\ stored' = IF storageOk THEN Stringify(other') ELSE stored
    /\ UNCHANGED <<data, cloudUrl, syncTimer, uploads, inits, ret>>
    /\ UNCHANGED <<storageOk, cloudCfg, today, mailVars, got, exported, loginVars>>

\* add(entry) in the second tab, for an entry of a known type: that tab's
\* _data is created when init() has not filled it, the entry is pushed to it
\* and _save() writes that tab's snapshot (its sync timer is its own)
OtherAdd(entry, newId) ==
    LET key == TYPE_MAP(entry.type)
        base == IF other.kind = "null" THEN EnsureStructure(EmptyObject) ELSE other IN
    /\ Count(other) < MaxEntries
    /\ other' = [base EXCEPT ![key] = Append(@, Stamp(entry, newId))]
    /\ stored' = IF storageOk THEN Stringify(other') ELSE stored
    /\ UNCHANGED <<data, cloudUrl, syncTimer, uploads, inits, ret>>
    /\ UNCHANGED <<storageOk, cloudCfg, today, mailVars, got, exported, loginVars>>

\* the first entry with the given id, in the search order of update and
\* delete: <<key, index>>, or <<"", 0>> when no entry has it
Find(d, id) ==
    LET hits == {h \in (1..Len(PluralKeys)) \X (1..MaxEntries + 1) :
                   /\ h[2] <= Len(d[PluralKeys[h[1]]])
                   /\ d[PluralKeys[h[1]]][h[2]].id = id}
    IN IF hits = {} THEN <<"", 0>>
       ELSE LET h == CHOOSE h \in hits : \A g \in hits :
                       h[1] < g[1] \/ (h[1] = g[1] /\ h[2] <= g[2])
            IN <<PluralKeys[h[1]], h[2]>>

\* a faulty merge that replaces the entry by the listed fields; the update
\* property must tell it from the field-by-field assignment
MergeReplace(entry, fields) ==
    [f \in FieldNames |->
       IF f \in fields.keys THEN fields.vals[f] ELSE BlankEntry[f]]

\* arr[i][fields[f]] = updatedFields[fields[f]] for every listed key
Merge(entry, fields) ==
    [f \in FieldNames |-> IF f \in fields.keys THEN fields.vals[f] ELSE entry[f]]

\* update(id, updatedFields)
Update(id, fields) ==
    LET at == Find(data, id) IN
    /\ IF data.kind = "null" \/ id = NoId \/ at[1] = ""
         THEN /\ ret' = Ret("update", "null", BlankEntry)
              /\ UNCHANGED data
              /\ NoSave
         ELSE /\ data' = [data EXCEPT ![at[1]][at[2]] = Merge(@, fields)]
              /\ Save(data')
              /\ ret' = Ret("update", "entry", data'[at[1]][at[2]])
    /\ UNCHANGED <<cloudUrl, uploads, inits, outside>>

\* arr.splice(i, 1)
Splice(arr, i) == SubSeq(arr, 1, i - 1) \o SubSeq(arr, i + 1, Len(arr))

\* delete(id)
Delete(id) ==
    LET at == Find(data, id) IN
    /\ IF data.kind = "null" \/ id = NoId \/ at[1] = ""
         THEN /\ ret' = Ret("delete", "false", BlankEntry)
              /\ UNCHANGED data
              /\ NoSave
         ELSE /\ data' = [data EXCEPT ![at[1]] = Splice(@, at[2])]
              /\ Save(data')
              /\ ret' = Ret("delete", "true", BlankEntry)
    /\ UNCHANGED <<cloudUrl, uploads, inits, outside>>

\* the index of the first stream with the given id, 0 when there is none
FindStream(d, id) ==
    LET hits == {i \in 1..Len(d.streams) : d.streams[i].id = id}
    IN IF hits = {} THEN 0 ELSE CHOOSE i \in hits : \A j \in hits : i <= j

\* setLive(id, bool): _data.streams[i].isLive = !!bool
SetLive(id, bool) ==
    LET i == FindStream(data, id) IN
    /\ IF data.kind = "null" \/ i = 0
         THEN /\ ret' = Ret("setLive", "null", BlankEntry)
              /\ UNCHANGED data
              /\ NoSave
         ELSE /\ data' = [data EXCEPT !.streams[i].isLive =
                            IF bool THEN "true" ELSE "false"]
              /\ Save(data')
              /\ ret' = Ret("setLive", "entry", data'.streams[i])
    /\ UNCHANGED <<cloudUrl, uploads, inits, outside>>

\* --------------------------------------------------------- import/export
\* exportJSON(): the bytes of the downloaded file, JSON.stringify(_data, null, 2)
ExportJSON == Stringify(data)

\* a faulty import that empties the store before it parses the file; the
\* import property must tell it from importJSON
ImportJSONEager(text) ==
    /\ data' = EnsureStructure(IF ParseOk(text) THEN text ELSE EmptyObject)
    /\ Save(data')
    /\ ret' = Ret("import", IF ParseOk(text) THEN "resolved" ELSE "rejected",
                  BlankEntry)
    /\ UNCHANGED <<cloudUrl, uploads, inits, outside>>

\* importJSON(file): no file, or reader.onload on the text of the file
ImportJSON(text) ==
    /\ IF ParseOk(text)
         THEN /\ data' = EnsureStructure(text)
              /\ Save(data')
              /\ ret' = Ret("import", "resolved", BlankEntry)
         ELSE /\ ret' = Ret("import", "rejected", BlankEntry)
              /\ UNCHANGED data
              /\ NoSave
    /\ UNCHANGED <<cloudUrl, uploads, inits, outside>>

ImportTexts == {NoText, Garbage, ArrayDoc, PartialDoc}

\* exportJSON() called: nothing before init, else the file is downloaded
ExportCall ==
    /\ exported' = IF data.kind = "null" THEN exported
                   ELSE [text |-> ExportJSON, of |-> data]
    /\ ret' = Ret("export", "undefined", BlankEntry)
    /\ UNCHANGED <<data, stored, cloudUrl, syncTimer, uploads, inits>>
    /\ UNCHANGED <<storageOk, cloudCfg, today, mailVars, got, other, loginVars>>

\* reader.onload of an import of the file exportJSON() downloaded last
ImportExported ==
    /\ exported.text # NoText
    /\ ImportJSON(exported.text)

\* ============================================================ emailjs.js
\* text is a sequence of characters
Chars(n, c) == [i \in 1..n |-> c]
Ellipsis == <<".", ".", ".">>

\* String.prototype.trim()
Trim(s) ==
    LET solid == {i \in 1..Len(s) : s[i] # " "} IN
    IF solid = {} THEN <<>>
    ELSE SubSeq(s, CHOOSE i \in solid : \A j \in solid : i <= j,
                   CHOOSE i \in solid : \A j \in solid : i >= j)

\* the fixed subject and message of sendTest()
TestSubject == <<"T", "e", "s", "t">>
TestMessage == Chars(81, "m")

\* todayKey()
todayKey == today

\* a faulty count of every record whatever its day; the quota property must
\* tell it from countSentToday
countSentEver == Len(history)

\* countSentToday(): the history records whose dateKey is today
countSentToday ==
    Cardinality({i \in 1..Len(history) : history[i].dateKey = todayKey})

\* getRemainingToday()
getRemainingToday ==
    IF MAX_MESSAGES_PER_DAY - countSentToday > 0
      THEN MAX_MESSAGES_PER_DAY - countSentToday
      ELSE 0

\* a faulty preview that already shortens a message of exactly 50 characters;
\* the history property must tell it from the preview of saveToHistory
PreviewEager(message) ==
    IF Len(message) >= PREVIEW_LENGTH
      THEN SubSeq(message, 1, PREVIEW_LENGTH) \o Ellipsis
      ELSE message

\* the preview of saveToHistory()
Preview(message) ==
    IF Len(message) > PREVIEW_LENGTH
      THEN SubSeq(message, 1, PREVIEW_LENGTH) \o Ellipsis
      ELSE message

\* the record saveToHistory() puts in front
HistoryRecord(subject, message) ==
    [date |-> today, dateKey |-> todayKey, subject |-> subject,
     preview |-> Preview(message)]

\* saveToHistory(): history.unshift(record); writeArray(...)
saveToHistory(subject, message) ==
    <<HistoryRecord(subject, message)>> \o history

\* getHistory()
getHistory ==
    [i \in 1..Len(history) |->
       [date |-> history[i].date, subject |-> history[i].subject,
        preview |-> history[i].preview]]

\* isConfigured()
isConfigured ==
    /\ mailCfg.serviceID # ""
    /\ mailCfg.templateID # ""
    /\ mailCfg.publicKey # ""

MailConfig(s, t, k) == [serviceID |-> s, templateID |-> t, publicKey |-> k]

MRet(op, res) == [op |-> op, res |-> res]
SendRec(pc, subject, message) == [pc |-> pc, subject |-> subject, message |-> message]
NoSend == SendRec("idle", <<>>, <<>>)

\* the slot a new pending send() is tracked in
FreeSend(i) ==
    /\ sends[i].pc = "idle"
    /\ \A j \in 1..(i - 1) : sends[j].pc # "idle"

\* a faulty init() that starts a load of its own while one is in flight
LoadSdkNoShare ==
    IF sdkLoaded
      THEN UNCHANGED <<sdkLoaded, sdkLoading, sdkLoadPromise, scripts>>
      ELSE /\ scripts < MaxScripts
           /\ sdkLoading' = TRUE
           /\ sdkLoadPromise' = "pending"
           /\ scripts' = scripts + 1
           /\ UNCHANGED sdkLoaded

\* init() of EmailService: nothing when loaded, the shared promise while
\* loading, else a new script element is appended
LoadSdk ==
    IF sdkLoaded \/ (sdkLoading /\ sdkLoadPromise # "null")
      THEN UNCHANGED <<sdkLoaded, sdkLoading, sdkLoadPromise, scripts>>
      ELSE /\ scripts < MaxScripts
           /\ sdkLoading' = TRUE
           /\ sdkLoadPromise' = "pending"
           /\ scripts' = scripts + 1
           /\ UNCHANGED sdkLoaded

\* EmailService.init() called on its own
EmailInit ==
    /\ LoadSdk
    /\ mret' = MRet("init", "promise")
    /\ UNCHANGED <<history, mailCfg, emailjs, sends, sentToday, mailOutside>>

\* a faulty order of the checks of send(), configuration first; the order
\* property must tell it from the order of the code
SendCheckConfigFirst(subject, message) ==
    IF ~isConfigured THEN "notConfigured"
    ELSE IF Trim(subject) = <<>> THEN "noSubject"
    ELSE IF Trim(message) = <<>> THEN "noMessage"
    ELSE IF getRemainingToday <= 0 THEN "quota"
    ELSE ""

\* the rejection send() returns before any work, "" when every check passes
SendCheck(subject, message) ==
    IF Trim(subject) = <<>> THEN "noSubject"
    ELSE IF Trim(message) = <<>> THEN "noMessage"
    ELSE IF ~isConfigured THEN "notConfigured"
    ELSE IF getRemainingToday <= 0 THEN "quota"
    ELSE ""

\* send(subject, message, imageUrl), called as op ("send" or "sendTest")
Send(op, subject, message) ==
    IF SendCheck(subject, message) # ""
      THEN /\ mret' = MRet(op, SendCheck(subject, message))
           /\ UNCHANGED <<history, mailCfg, sdkLoaded, sdkLoading, sdkLoadPromise, scripts,
                          emailjs, sends, sentToday, mailOutside>>
      ELSE IF sdkLoaded /\ ~emailjs
      THEN \* typeof emailjs === 'undefined': the first .then throws
           /\ mret' = MRet(op, "sdkMissing")
           /\ UNCHANGED <<history, mailCfg, sdkLoaded, sdkLoading, sdkLoadPromise, scripts,
                          emailjs, sends, sentToday, mailOutside>>
      ELSE /\ \E i \in 1..MaxSends :
                /\ FreeSend(i)
                /\ sends' = [sends EXCEPT ![i] =
                     SendRec(IF sdkLoaded THEN "relay" ELSE "load",
                             Trim(subject), Trim(message))]
           /\ LoadSdk
           /\ mret' = MRet(op, "pending")
           /\ UNCHANGED <<history, mailCfg, emailjs, sentToday, mailOutside>>

\* sendTest()
SendTest == Send("sendTest", TestSubject, TestMessage)

\* script.onload: the waiting sends call emailjs.send, or throw when the
\* script did not define emailjs
SdkLoads(defined) ==
    /\ scripts > 0
    /\ scripts' = scripts - 1
    /\ sdkLoaded' = TRUE
    /\ sdkLoading' = FALSE
    /\ sdkLoadPromise' = "fulfilled"
    /\ emailjs' = defined
    /\ sends' = [i \in 1..MaxSends |->
         IF sends[i].pc = "load"
           THEN (IF defined THEN [sends[i] EXCEPT !.pc = "relay"] ELSE NoSend)
           ELSE sends[i]]
    /\ mret' = IF ~defined /\ \E i \in 1..MaxSends : sends[i].pc = "load"
                 THEN MRet("settle", "sdkMissing")
                 ELSE mret
    /\ UNCHANGED <<history, mailCfg, sentToday, mailOutside>>

\* script.onerror: the loader is reset and every waiting send rejects
SdkFails ==
    /\ scripts > 0
    /\ scripts' = scripts - 1
    /\ sdkLoaded' = FALSE
    /\ sdkLoading' = FALSE
    /\ sdkLoadPromise' = "null"
    /\ sends' = [i \in 1..MaxSends |->
         IF sends[i].pc = "load" THEN NoSend ELSE sends[i]]
    /\ mret' = IF \E i \in 1..MaxSends : sends[i].pc = "load"
                 THEN MRet("settle", "loadError")
                 ELSE mret
    /\ UNCHANGED <<history, mailCfg, emailjs, sentToday, mailOutside>>

\* emailjs.send resolved: saveToHistory, whose writeArray throws when the
\* storage write fails, and the .catch turns that into the generic error
RelayOk(i) ==
    /\ sends[i].pc = "relay"
    /\ sends' = [sends EXCEPT ![i] = NoSend]
    /\ IF storageOk
         THEN /\ history' = saveToHistory(sends[i].subject, sends[i].message)
              /\ mret' = MRet("settle", "resolved")
              /\ sentToday' = IF sentToday >= 0 THEN sentToday + 1 ELSE sentToday
         ELSE /\ mret' = MRet("settle", "sendError")
              /\ UNCHANGED <<history, sentToday>>
    /\ UNCHANGED <<mailCfg, sdkLoaded, sdkLoading, sdkLoadPromise, scripts, emailjs, mailOutside>>

\* a faulty failure path that records the message although the relay rejected
\* it; the failure property must tell it from the .catch of send()
RelayFailsRecorded(i) ==
    /\ sends[i].pc = "relay"
    /\ sends' = [sends EXCEPT ![i] = NoSend]
    /\ history' = saveToHistory(sends[i].subject, sends[i].message)
    /\ mret' = MRet("settle", "sendError")
    /\ UNCHANGED <<mailCfg, sdkLoaded, sdkLoading, sdkLoadPromise, scripts, emailjs,
                   sentToday, mailOutside>>

\* emailjs.send rejected
RelayFails(i) ==
    /\ sends[i].pc = "relay"
    /\ sends' = [sends EXCEPT ![i] = NoSend]
    /\ mret' = MRet("settle", "sendError")
    /\ UNCHANGED <<history, mailCfg, sdkLoaded, sdkLoading, sdkLoadPromise, scripts, emailjs,
                   sentToday, mailOutside>>

\* clearHistory(): removeItem
ClearHistory ==
    /\ history' = <<>>
    /\ sentToday' = -1
    /\ mret' = MRet("clearHistory", "done")
    /\ UNCHANGED <<mailCfg, sdkLoaded, sdkLoading, sdkLoadPromise, scripts, emailjs, sends,
                   mailOutside>>

\* saveConfig(serviceID, templateID, publicKey): three setItem calls, the
\* first of which throws when the storage write fails
SaveConfig(cfg) ==
    /\ IF storageOk
         THEN mailCfg' = cfg /\ mret' = MRet("saveConfig", "done")
         ELSE mailCfg' = mailCfg /\ mret' = MRet("saveConfig", "throw")
    /\ UNCHANGED <<history, sdkLoaded, sdkLoading, sdkLoadPromise, scripts, emailjs, sends,
                   sentToday, mailOutside>>

\* ----------------------------------------------------------------- time
\* midnight passes
Tick ==
    /\ today < MaxDay
    /\ today' = today + 1
    /\ sentToday' = 0
    /\ UNCHANGED <<storeVars, storageOk, cloudCfg, history, mailCfg, sdkLoaded,
                   sdkLoading, sdkLoadPromise, scripts, emailjs, sends, mret, got, other, exported, loginVars>>

\* ============================================================== admin.js
MAX_ATTEMPTS == 5
COOLDOWN_SECONDS == 60

NoLogin == "idle"

HideSteps == 800 \div StepMs
LockSteps == COOLDOWN_SECONDS * TickSteps

\* the module state of admin.js and the login screen when the page has loaded
AdminStart ==
    /\ attempts = 0
    /\ cooldownRemaining = 0
    /\ cooldownTimer = 0
    /\ intervals = <<>>
    /\ logins = [i \in 1..MaxLogins |-> NoLogin]
    /\ authed = FALSE
    /\ btnDisabled = FALSE
    /\ lockAge = -1
    /\ ready = {}
    /\ authShown = TRUE
    /\ hides = <<>>

\* the state the timers of the login screen work on
AuthState == [rem |-> cooldownRemaining, timer |-> cooldownTimer,
              running |-> intervals, attempts |-> attempts, btn |-> btnDisabled]

\* the ids of the intervals that run
RunningIds(running) == {running[j].id : j \in DOMAIN running}

\* clearInterval(id): nothing for null or an id that does not run
ClearInterval(running, id) == SelectSeq(running, LAMBDA r : r.id # id)

\* setInterval(tick, 1000): the new interval fires a second from now, after
\* the timers that are due now and have not fired yet
SetInterval(running, id) ==
    LET due == {j \in DOMAIN running : running[j].due = 0}
        p == IF due = {} THEN Len(running) + 1
             ELSE CHOOSE j \in due : \A k \in due : j <= k
    IN SubSeq(running, 1, p - 1) \o <<[id |-> id, due |-> TickSteps]>>
         \o SubSeq(running, p, Len(running))

\* tick(): at 0 the interval whose id _cooldownTimer holds is cleared, the
\* button enabled and _attempts reset; else one second is counted down
TickOf(st) ==
    IF st.rem <= 0
      THEN [st EXCEPT !.running = ClearInterval(@, st.timer), !.timer = 0,
                      !.btn = FALSE, !.attempts = 0]
      ELSE [st EXCEPT !.rem = @ - 1]

\* startCooldown(): the countdown is set, the button disabled, tick() called
\* once and a new interval started, whose id replaces the one held
StartCooldown(st) ==
    LET set == [st EXCEPT !.rem = COOLDOWN_SECONDS, !.btn = TRUE]
        new == CHOOSE k \in 1..MaxIntervals :
                 /\ k \notin RunningIds(st.running)
                 /\ \A j \in 1..(k - 1) : j \in RunningIds(st.running)
        ticked == TickOf(set)
    IN [ticked EXCEPT !.running = SetInterval(@, new), !.timer = new]

SetAuthState(st) ==
    /\ cooldownRemaining' = st.rem
    /\ cooldownTimer' = st.timer
    /\ intervals' = st.running
    /\ attempts' = st.attempts
    /\ btnDisabled' = st.btn

loginRest == <<storeVars, mailVars, storageOk, cloudCfg, today, got, other, exported>>

\* the .then of the ContentStore.init() that AdminPanel.init() called: with a
\* session flag the auth screen is hidden; the click, keydown and logout
\* listeners are added, once more by every call of AdminPanel.init()
AdminReady(i) ==
    /\ inits[i].pc = "done"
    /\ i \notin ready
    /\ ready' = ready \cup {i}
    /\ authShown' = IF authed THEN FALSE ELSE authShown
    /\ UNCHANGED <<attempts, cooldownRemaining, cooldownTimer, intervals, logins,
                   authed, btnDisabled, lockAge, hides>>
    /\ UNCHANGED loginRest

\* the logins that have not settled
Hashing == {j \in 1..MaxLogins : logins[j] # NoLogin}

\* a click on the button or Enter in the passphrase field of the auth screen:
\* every listener calls login(passphrase), which runs up to the await;
\* nothing during the cooldown; a disabled button gets no click, the Enter
\* key has no such guard
LoginCall(via, pass) ==
    LET free == (1..MaxLogins) \ Hashing
        n == Cardinality(ready)
        started == {j \in free : Cardinality({k \in free : k < j}) < n}
    IN
    /\ n > 0
    /\ authShown
    /\ via = "button" => ~btnDisabled
    /\ cooldownRemaining <= 0
    /\ Cardinality(free) >= n
    /\ pass = "wrong" =>
         Len(intervals) + Cardinality({j \in Hashing : logins[j] = "wrong"}) + n
           <= MaxIntervals
    /\ pass = "right" =>
         Len(hides) + Cardinality({j \in Hashing : logins[j] = "right"}) + n
           <= MaxHides
    /\ attempts < MaxFailures
    /\ logins' = [j \in 1..MaxLogins |-> IF j \in started THEN pass ELSE logins[j]]
    /\ UNCHANGED <<attempts, cooldownRemaining, cooldownTimer, intervals, authed,
                   btnDisabled, lockAge, ready, authShown, hides>>
    /\ UNCHANGED loginRest

\* login(passphrase) after the await: the hash is compared; on success the
\* session flag is set and the auth screen hidden 800 ms later
LoginSettles(i) ==
    /\ logins[i] # NoLogin
    /\ logins' = [logins EXCEPT ![i] = NoLogin]
    /\ IF logins[i] = "right"
         THEN /\ authed' = TRUE
              /\ attempts' = 0
              /\ hides' = Append(hides, HideSteps)
              /\ UNCHANGED <<cooldownRemaining, cooldownTimer, intervals,
                             btnDisabled, lockAge>>
         ELSE LET failed == [AuthState EXCEPT !.attempts = @ + 1] IN
              /\ IF failed.attempts >= MAX_ATTEMPTS
                   THEN /\ SetAuthState(StartCooldown(failed))
                        /\ lockAge' = IF lockAge \in 0..(LockSteps - 1)
                                        THEN lockAge ELSE 0
                   ELSE /\ SetAuthState(failed)
                        /\ UNCHANGED lockAge
              /\ UNCHANGED <<authed, hides>>
    /\ UNCHANGED <<ready, authShown>>
    /\ UNCHANGED loginRest

\* logout(), by the logout button or AdminPanel.logout(): the session flag is
\* removed and the auth screen shown
Logout ==
    /\ authed' = FALSE
    /\ authShown' = TRUE
    /\ UNCHANGED <<attempts, cooldownRemaining, cooldownTimer, intervals, logins,
                   btnDisabled, lockAge, ready, hides>>
    /\ UNCHANGED loginRest

\* the timeout a successful login set fires: the auth screen is hidden
HideFires ==
    /\ hides # <<>>
    /\ Head(hides) = 0
    /\ hides' = Tail(hides)
    /\ authShown' = FALSE
    /\ UNCHANGED <<attempts, cooldownRemaining, cooldownTimer, intervals, logins,
                   authed, btnDisabled, lockAge, ready>>
    /\ UNCHANGED loginRest

\* the interval that is due first calls tick(), as a task of its own; it
\* fires again a second later unless tick() cleared it
IntervalFires ==
    LET due == {j \in DOMAIN intervals : intervals[j].due = 0} IN
    /\ due # {}
    /\ LET j == CHOOSE j \in due : \A k \in due : j <= k
           id == intervals[j].id
           st == TickOf(AuthState)
           again == [k \in DOMAIN st.running |->
                       IF st.running[k].id = id
                         THEN [id |-> id, due |-> TickSteps] ELSE st.running[k]]
       IN SetAuthState([st EXCEPT !.running = again])
    /\ UNCHANGED <<logins, authed, lockAge, ready, authShown, hides>>
    /\ UNCHANGED loginRest

\* StepMs milliseconds pass; the sync timer of the Content Store runs on the
\* same clock. Timers are taken to be punctual: a timer that is due fires
\* before the clock moves on
TimeAdvances ==
    /\ intervals # <<>> \/ hides # <<>> \/ lockAge >= 0 \/ syncTimer > 0
    /\ \A j \in DOMAIN intervals : intervals[j].due > 0
    /\ \A j \in DOMAIN hides : hides[j] > 0
    /\ intervals' = [j \in DOMAIN intervals |->
                       [intervals[j] EXCEPT !.due = @ - 1]]
    /\ hides' = [j \in DOMAIN hides |-> hides[j] - 1]
    /\ lockAge' = IF lockAge \in 0..LockSteps THEN lockAge + 1 ELSE -1
    /\ UNCHANGED <<attempts, cooldownRemaining, cooldownTimer, logins, authed,
                   btnDisabled, ready, authShown>>
    /\ SyncTimerRuns(1)
    /\ UNCHANGED <<data, stored, cloudUrl, inits, ret>>
    /\ UNCHANGED <<mailVars, storageOk, cloudCfg, today, got, other, exported>>

\* nuclearDeleteStep3 onOk, once DELETE is typed: the persisted snapshot is
\* removed and init() re-run; _load() finds nothing, so config.json is fetched
\* while _data keeps what it held
NuclearOk(i) ==
    /\ data.kind # "null"
    /\ FreeSlot(i)
    /\ stored' = NoText
    /\ inits' = [inits EXCEPT ![i] = InitRec("config", Pending, NoUrl)]
    /\ ret' = Ret("init", "promise", BlankEntry)
    /\ UNCHANGED <<data, cloudUrl, syncTimer, uploads, outside>>

\* ------------------------------------------------------- specifications
MailStart ==
    /\ history = <<>>
    /\ mailCfg = MailConfig("", "", "")
    /\ sdkLoaded = FALSE
    /\ sdkLoading = FALSE
    /\ sdkLoadPromise = "null"
    /\ scripts = 0
    /\ emailjs = FALSE
    /\ sends = [i \in 1..MaxSends |-> NoSend]
    /\ mret = MRet("none", "none")
    /\ sentToday = 0

StoreStart ==
    /\ data = NullData
    /\ storageOk \in BOOLEAN
    /\ cloudUrl = NoUrl
    /\ cloudCfg = FALSE
    /\ syncTimer = 0
    /\ uploads = 0
    /\ inits = [i \in 1..MaxInit |-> InitRec("idle", NoResp, NoUrl)]
    /\ today = 1
    /\ ret = Ret("none", "none", BlankEntry)
    /\ got = <<>>
    /\ other = NullData
    /\ exported = NoExport
    /\ AdminStart

\* a page load of a profile whose local store holds a snapshot
Init ==
    /\ StoreStart
    /\ MailStart
    /\ stored = PartialDoc

Next ==
    \/ \E i \in 1..MaxInit : InitCall(i)
    \/ \E e \in AddInputs :
         \E g \in (IF e.id = NoId THEN GenerateId(data) ELSE {NoId}) : Add(TRUE, e, g)
    \/ Add(FALSE, BlankEntry, NoId)
    \/ \E id \in Ids, f \in UpdateInputs : Update(id, f)
    \/ \E id \in Ids : Delete(id)
    \/ \E id \in Ids, b \in BOOLEAN : SetLive(id, b)
    \/ \E t \in ImportTexts : ImportJSON(t)
    \/ TimePasses

Spec == Init /\ [][Next]_vars

\* a page load of any profile: the local store absent, unparsable or present
InitBoot ==
    /\ StoreStart
    /\ MailStart
    /\ stored \in {NoText, Garbage, PartialDoc}

NextBoot ==
    \/ \E i \in 1..MaxInit : InitCall(i)
    \/ \E i \in 1..MaxInit, k \in {"neterr", "http"} : Respond(i, Resp(k, NoText))
    \/ \E i \in 1..MaxInit, b \in ConfigTexts \cup SnapshotTexts :
         Respond(i, Resp("body", b))
    \/ \E i \in 1..MaxInit : InitStep(i)
    \/ TimePasses

SpecBoot == InitBoot /\ [][NextBoot]_vars

\* the gateway, on a page whose Content Store is left alone
Subjects == {<<>>, <<" ">>, <<" ">> \o TestSubject}
Messages == {<<>>, <<" ", " ">>, TestMessage \o <<" ">>}
MailConfigs == {MailConfig("s", "t", "k"), MailConfig("s", "t", "")}

InitMail ==
    /\ StoreStart
    /\ MailStart
    /\ stored = NoText

NextMail ==
    \/ EmailInit
    \/ \E s \in Subjects, m \in Messages : Send("send", s, m)
    \/ SendTest
    \/ \E d \in BOOLEAN : SdkLoads(d)
    \/ SdkFails
    \/ \E i \in 1..MaxSends : RelayOk(i)
    \/ \E i \in 1..MaxSends : RelayFails(i)
    \/ ClearHistory
    \/ \E c \in MailConfigs : SaveConfig(c)
    \/ Tick

SpecMail == InitMail /\ [][NextMail]_vars

\* export and import: files are downloaded and imported while the store is
\* bootstrapped and entries are added
InitRound ==
    /\ StoreStart
    /\ MailStart
    /\ stored \in {NoText, PartialDoc}

NextRound ==
    \/ data = NullData /\ InitCall(1)
    \/ \E i \in 1..MaxInit, k \in {"neterr", "http"} : Respond(i, Resp(k, NoText))
    \/ \E i \in 1..MaxInit : Respond(i, Resp("body", SeedDoc))
    \/ \E i \in 1..MaxInit : InitStep(i)
    \/ \E e \in AddInputs :
         \E g \in (IF e.id = NoId THEN GenerateId(data) ELSE {NoId}) : Add(TRUE, e, g)
    \/ \E t \in ImportTexts : ImportJSON(t)
    \/ ExportCall
    \/ ImportExported
    \/ TimePasses

SpecRound == InitRound /\ [][NextRound]_vars

\* every fetch settles and the promise callbacks of a settled fetch run
SpecBootFair ==
    /\ SpecBoot
    /\ \A i \in 1..MaxInit : WF_vars(InitStep(i))
    /\ \A i \in 1..MaxInit :
         WF_vars(\E k \in {"neterr", "http"} : Respond(i, Resp(k, NoText)))

\* ================================================================ claims
ValidTypes == {"video", "screenshot", "post", "stream"}
Colls(d) == [k \in CollKeys |-> d[k]]
Structured(d) == d.kind \in {"object", "array"} /\ d.arrs = CollKeys
InFlight(i) == inits[i].pc \in {"config", "mirror", "seed"}

\* C1: whatever the local store holds and however the descriptor, mirror and
\* seed fetches and the storage write end, an init() whose fetches settle
\* resolves (init has no rejecting path), and whenever an init() has resolved
\* the in-memory snapshot is an object whose four collections are arrays.
C1_InitAlwaysResolves ==
    /\ [](\A i \in 1..MaxInit : inits[i].pc = "done" => Structured(data))
    /\ \A i \in 1..MaxInit : InFlight(i) ~> (inits[i].pc = "done")

\* an init() resolved with the local store unparsable, the seed fetched and
\* the storage write failing
C1_Witness ==
    /\ \E i \in 1..MaxInit : inits[i].pc = "done"
    /\ stored = Garbage /\ ~storageOk
    /\ Colls(data) = Colls(EnsureStructure(SeedDoc))

\* C2: bootstrap takes the first available of local store, mirror, seed file,
\* empty: a stored snapshot is used without any fetch; a failed descriptor or
\* mirror fetch goes on to the seed file; the mirror's JSON is installed when
\* its fetch succeeds, else the seed's JSON when that fetch succeeds, and the
\* empty snapshot only when the seed fetch failed.
C2_Failed(r) == r.kind # "body" \/ ~ParseOk(r.body)
C2_BootstrapPriority ==
    [][\A i \in 1..MaxInit :
         /\ (InitCall(i) /\ ParseOk(stored)) =>
              inits'[i].pc = "done" /\ Colls(data') = Colls(EnsureStructure(stored))
         /\ (InitStep(i) /\ inits[i].pc = "config") =>
              inits'[i].pc \in {"mirror", "seed"}
         /\ (InitStep(i) /\ inits[i].pc = "mirror") =>
              IF C2_Failed(inits[i].resp)
                THEN inits'[i].pc = "seed" /\ data' = data
                ELSE /\ inits'[i].pc = "done"
                     /\ Colls(data') = Colls(EnsureStructure(inits[i].resp.body))
         /\ (InitStep(i) /\ inits[i].pc = "seed") =>
              /\ inits'[i].pc = "done"
              /\ Colls(data') =
                   IF C2_Failed(inits[i].resp)
                     THEN Colls(EnsureStructure(EmptyObject))
                     ELSE Colls(EnsureStructure(inits[i].resp.body))]_vars

\* C4: no two entries of the four collections taken together have the same id.
C4_UniqueIds ==
    \A i, j \in 1..Count(data) :
       i # j => Entries(data)[i].id # Entries(data)[j].id

\* C5: update(id, fields) on an id some entry has changes, on the first entry
\* with that id in the order videos, screenshots, posts, streams, exactly the
\* listed keys to the given values; every other field, every other entry and
\* the length and order of every collection stay, and that entry is returned.
C5_First(id) ==
    CHOOSE p \in 1..Count(data) :
       /\ Entries(data)[p].id = id
       /\ \A q \in 1..(p - 1) : Entries(data)[q].id # id
C5_UpdateFrame ==
    [][\A id \in Ids \ {NoId}, f \in UpdateInputs :
         (id \in UsedIds(data) /\ Update(id, f)) =>
            LET p == C5_First(id) IN
            /\ \A k \in CollKeys : Len(data'[k]) = Len(data[k])
            /\ \A q \in 1..Count(data) :
                 q # p => Entries(data')[q] = Entries(data)[q]
            /\ \A n \in FieldNames :
                 Entries(data')[p][n] =
                   IF n \in f.keys THEN f.vals[n] ELSE Entries(data)[p][n]
            /\ ret' = Ret("update", "entry", Entries(data')[p])]_vars

\* update changed the title of the first of two entries that share an id and
\* returned it; the second one kept its title
C5_Witness ==
    /\ ret.op = "update" /\ ret.res = "entry" /\ ret.out.title = "X"
    /\ Count(data) = 2
    /\ Entries(data)[1] = ret.out
    /\ Entries(data)[2].id = ret.out.id
    /\ Entries(data)[2].title # "X"

\* the calls of send and sendTest the gateway is driven with
SendCalls ==
    {<<"send", s, m>> : s \in Subjects, m \in Messages}
       \cup {<<"sendTest", TestSubject, TestMessage>>}

\* C3: counting the sends that succeeded since the day began without a record,
\* getRemainingToday() is max(0, 10 - N); at 0 every further send or sendTest
\* is rejected, with the quota error when its text and the configuration are
\* in order, and it loads no transport, calls no relay and records nothing.
C3_Solid(s) == \E i \in 1..Len(s) : s[i] # " "
C3_DailyQuota ==
    /\ [](sentToday >= 0 =>
            getRemainingToday = IF 10 - sentToday > 0 THEN 10 - sentToday ELSE 0)
    /\ [][getRemainingToday = 0 =>
            \A c \in SendCalls :
               Send(c[1], c[2], c[3]) =>
                  /\ mret'.res \in
                       {"noSubject", "noMessage", "notConfigured", "quota"}
                  /\ (C3_Solid(c[2]) /\ C3_Solid(c[3]) /\ isConfigured) =>
                       mret'.res = "quota"
                  /\ UNCHANGED <<history, sends, sdkLoaded, sdkLoading,
                                 sdkLoadPromise, scripts, sentToday>>]_vars

\* the tenth send of the day succeeded and a sendTest was then refused
C3_Witness ==
    /\ sentToday = 10
    /\ getRemainingToday = 0
    /\ mret = MRet("sendTest", "quota")

\* C6: add without an entry, without a type or with a type outside the four,
\* and update or delete with an id no entry has, return null, null and false
\* without throwing and leave the in-memory snapshot, the persisted snapshot
\* and the sync timer as they were.
C6_RejectedAreNoOps ==
    [][/\ \A h \in BOOLEAN, e \in AddInputs \cup {BlankEntry} :
            ((~h \/ e.type \notin ValidTypes) /\ Add(h, e, NoId)) =>
               /\ ret' = Ret("add", "null", BlankEntry)
               /\ UNCHANGED <<data, stored, syncTimer>>
       /\ \A id \in Ids, f \in UpdateInputs :
            (id \notin UsedIds(data) /\ Update(id, f)) =>
               /\ ret' = Ret("update", "null", BlankEntry)
               /\ UNCHANGED <<data, stored, syncTimer>>
       /\ \A id \in Ids :
            (id \notin UsedIds(data) /\ Delete(id)) =>
               /\ ret' = Ret("delete", "false", BlankEntry)
               /\ UNCHANGED <<data, stored, syncTimer>>]_vars

\* C7: while the storage write succeeds, add of an entry with one of the four
\* types appends it last to that type's collection and changes no other one,
\* keeps a caller's id and date and fills in a new id and today's date when
\* absent, returns the stored entry, leaves the persisted snapshot holding the
\* in-memory one, makes getAll(type) end with it and the getStats length
\* greater by one.
C7_Collection(type) ==
    CASE type = "video" -> "videos"
      [] type = "screenshot" -> "screenshots"
      [] type = "post" -> "posts"
      [] type = "stream" -> "streams"
C7_Before(k) == IF data.kind = "null" THEN <<>> ELSE data[k]
C7_AddAppends ==
    [][\A e \in AddInputs, g \in GenIds \cup {NoId} :
         (e.type \in ValidTypes /\ storageOk /\ Add(TRUE, e, g)) =>
            LET key == C7_Collection(e.type)
                st == data'[key][Len(data'[key])]
            IN /\ data'[key] = Append(C7_Before(key), st)
               /\ \A k \in CollKeys \ {key} : data'[k] = C7_Before(k)
               /\ st.id # NoId
               /\ IF e.id # NoId THEN st.id = e.id ELSE st.id \notin UsedIds(data)
               /\ st.date = IF e.date # NoDate THEN e.date ELSE today
               /\ st.type = e.type /\ st.title = e.title /\ st.isLive = e.isLive
               /\ ret' = Ret("add", "entry", st)
               /\ GetAll(e.type)' = Append(GetAll(e.type), st)
               /\ GetStats' = [GetStats EXCEPT ![key] = @ + 1]
               /\ Colls(EnsureStructure(stored')) = Colls(data')]_vars

\* what the claims call the normalized value of a parsed text
C8_Normalized(t) ==
    [k \in CollKeys |->
       IF t.kind \in {"object", "array"} /\ k \in t.arrs THEN t[k] ELSE <<>>]

\* C8 as stated: an import whose text is missing or does not parse rejects and
\* leaves the in-memory snapshot, the persisted snapshot and the sync timer as
\* they were; an import of valid JSON makes both the in-memory and the
\* persisted snapshot the normalized parsed value, never only one of them.
C8_ImportReplacesBoth ==
    [][\A t \in ImportTexts \cup {exported.text} :
         ImportJSON(t) =>
            IF ParseOk(t)
              THEN /\ ret' = Ret("import", "resolved", BlankEntry)
                   /\ Colls(data') = C8_Normalized(t)
                   /\ Colls(EnsureStructure(stored')) = C8_Normalized(t)
              ELSE /\ ret' = Ret("import", "rejected", BlankEntry)
                   /\ UNCHANGED <<data, stored, syncTimer>>]_vars

\* C8: an import whose text is missing or does not parse rejects and leaves
\* the in-memory snapshot, the persisted snapshot and the sync timer as they
\* were; an import of valid JSON makes the in-memory snapshot the normalized
\* parsed value with no earlier entry kept, and the persisted snapshot too
\* when the storage write succeeds; when the write fails the persisted
\* snapshot stays the earlier one.
C8_ImportReplaces ==
    [][\A t \in ImportTexts \cup {exported.text} :
         ImportJSON(t) =>
            IF ParseOk(t)
              THEN /\ ret' = Ret("import", "resolved", BlankEntry)
                   /\ Colls(data') = C8_Normalized(t)
                   /\ IF storageOk
                        THEN Colls(EnsureStructure(stored')) = C8_Normalized(t)
                        ELSE stored' = stored
              ELSE /\ ret' = Ret("import", "rejected", BlankEntry)
                   /\ UNCHANGED <<data, stored, syncTimer>>]_vars

\* an import of valid JSON resolved while the storage write failed: the
\* in-memory snapshot is the imported one, the persisted one the earlier one
C8_Witness ==
    /\ ret = Ret("import", "resolved", BlankEntry)
    /\ ~storageOk
    /\ Colls(data) = C8_Normalized(ArrayDoc)
    /\ stored = PartialDoc

\* C9: while the storage write succeeds, importing the bytes exportJSON()
\* produced leaves the in-memory and the persisted snapshot with the four
\* collections, entries and order the in-memory snapshot had at the export.
C9_RoundTrip ==
    [][(storageOk /\ ImportExported) =>
         /\ Colls(data') = Colls(exported.of)
         /\ Colls(EnsureStructure(stored')) = Colls(exported.of)]_vars

\* C10: send checks, in this order, that subject and message are non-empty
\* after trimming, that the gateway is configured and that today's quota is
\* not used up; the first check that fails decides the error, and a send that
\* fails a check loads no transport, calls no relay and records nothing.
C10_Blank(s) == \A i \in 1..Len(s) : s[i] = " "
C10_CheckOrder ==
    [][\A c \in SendCalls :
         Send(c[1], c[2], c[3]) =>
            LET blank == C10_Blank(c[2]) \/ C10_Blank(c[3])
                fails == blank \/ ~isConfigured \/ getRemainingToday = 0
            IN /\ blank => mret'.res \in {"noSubject", "noMessage"}
               /\ (~blank /\ ~isConfigured) => mret'.res = "notConfigured"
               /\ (~blank /\ isConfigured /\ getRemainingToday = 0) =>
                     mret'.res = "quota"
               /\ fails => UNCHANGED <<history, sends, sdkLoaded, sdkLoading,
                                       sdkLoadPromise, scripts, emailjs, sentToday>>
               /\ ~fails => mret'.res \notin
                     {"noSubject", "noMessage", "notConfigured", "quota"}]_vars

\* a send with a blank subject was refused for its subject although the
\* gateway was not configured and the quota was used up
C10_Witness ==
    /\ mret = MRet("send", "noSubject")
    /\ ~isConfigured
    /\ getRemainingToday = 0

\* ------------------------------------------- the gateway with varied text
MaxHistory == 3

\* a short message, one padded with blanks, one of exactly 50 characters and
\* one of 51
HistMessages ==
    {<<"h", "i">>, <<" ", "y", "o", " ">>, Chars(50, "a"), Chars(50, "a") \o <<"b">>}

\* a profile whose EmailJS keys are absent or were saved in an earlier session;
\* the storage write works or fails (the storage quota is used up)
InitHist ==
    /\ StoreStart
    /\ stored = NoText
    /\ history = <<>>
    /\ mailCfg \in {MailConfig("", "", ""), MailConfig("s", "t", "k")}
    /\ sdkLoaded = FALSE
    /\ sdkLoading = FALSE
    /\ sdkLoadPromise = "null"
    /\ scripts = 0
    /\ emailjs = FALSE
    /\ sends = [i \in 1..MaxSends |-> NoSend]
    /\ mret = MRet("none", "none")
    /\ sentToday = 0

NextHist ==
    \/ \E cfg \in MailConfigs : SaveConfig(cfg)
    \/ \E m \in HistMessages :
         /\ Len(history) < MaxHistory
         /\ Send("send", TestSubject, m)
    \/ \E d \in BOOLEAN : SdkLoads(d)
    \/ SdkFails
    \/ \E i \in 1..MaxSends : RelayOk(i)
    \/ \E i \in 1..MaxSends : RelayFails(i)
    \/ ClearHistory

SpecHist == InitHist /\ [][NextHist]_vars

\* C11: when the transport load fails or the relay rejects the call, the
\* send rejects and the history and getRemainingToday() stay what they were;
\* the history grows only by the step of a send whose relay call succeeded,
\* and then by exactly that send's one record, put in front.
C11_FailuresLeaveHistory ==
    [][/\ (SdkFails \/ \E i \in 1..MaxSends : RelayFails(i)) =>
            /\ history' = history
            /\ getRemainingToday' = getRemainingToday
            /\ (\E i \in 1..MaxSends : sends'[i] # sends[i]) =>
                  mret'.res \in {"loadError", "sendError"}
       /\ Len(history') > Len(history) =>
            \E i \in 1..MaxSends :
               /\ sends[i].pc = "relay" /\ sends'[i].pc = "idle"
               /\ mret'.res = "resolved"
               /\ Len(history') = Len(history) + 1
               /\ Tail(history') = history
               /\ Head(history').subject = sends[i].subject]_vars

\* a relay call failed after an earlier send had been recorded: the send
\* rejected and the one record is still the whole history
C11_Witness ==
    /\ storageOk
    /\ mret = MRet("settle", "sendError")
    /\ Len(history) = 1

\* C12: after a send succeeded, getHistory()[0] is its record and the earlier
\* records follow in the order they had; the preview is the whole message as
\* sent (send trims it) when that has at most 50 characters, else its first 50
\* characters followed by "...".
C12_Expected(m) ==
    IF Len(m) <= 50 THEN m
    ELSE [j \in 1..53 |-> IF j <= 50 THEN m[j] ELSE "."]
C12_NewestFirst ==
    [][\A i \in 1..MaxSends :
         (RelayOk(i) /\ storageOk) =>
            getHistory' =
              <<[date |-> today, subject |-> sends[i].subject,
                 preview |-> C12_Expected(sends[i].message)]>> \o getHistory]_vars

\* a 51-character message was sent after a 50-character one: the newest
\* record comes first with 50 characters and the marker, the older one whole
C12_Witness ==
    /\ mret = MRet("settle", "resolved")
    /\ Len(getHistory) = 2
    /\ getHistory[1].preview = Chars(50, "a") \o <<".", ".", ".">>
    /\ getHistory[2].preview = Chars(50, "a")

\* C13: once getRemainingToday() is 0 it stays 0 through every gateway
\* operation of the same day, clearHistory() and saveConfig() included; only
\* the next calendar day makes a send possible again.
C13_QuotaLastsTheDay ==
    [][(getRemainingToday = 0 /\ today' = today) => getRemainingToday' = 0]_vars

\* C14: a failing storage write never reaches the caller: add, update,
\* delete, setLive and importJSON apply their change and return their normal
\* result, and a send whose relay call succeeded resolves although its
\* history record cannot be written.
C14_WriteFailureAbsorbed ==
    [][~storageOk =>
         /\ \A i \in 1..MaxSends : RelayOk(i) => mret'.res = "resolved"
         /\ \A e \in AddInputs, g \in GenIds \cup {NoId} :
              (TYPE_MAP(e.type) \in CollKeys /\ Add(TRUE, e, g)) =>
                 ret'.res = "entry" /\ data' # data
         /\ \A id \in UsedIds(data) \ {NoId}, f \in UpdateInputs :
              Update(id, f) => ret'.res = "entry"
         /\ \A id \in UsedIds(data) \ {NoId} :
              Delete(id) => ret'.res = "true" /\ data' # data
         /\ \A id \in Ids, b \in BOOLEAN :
              (FindStream(data, id) # 0 /\ SetLive(id, b)) => ret'.res = "entry"
         /\ \A t \in ImportTexts :
              (ParseOk(t) /\ ImportJSON(t)) =>
                 ret'.res = "resolved" /\ Colls(data') = C8_Normalized(t)]_vars

\* C15: whatever keys the fields of an update(id, fields) list, the entry it
\* returns has the id it was looked up by and the type it had before, and it
\* is in the collection that belongs to its type.
C15_IdAndTypeFixed ==
    [][\A id \in Ids \ {NoId}, f \in UpdateInputs :
         (id \in UsedIds(data) /\ Update(id, f)) =>
            /\ ret'.out.id = id
            /\ ret'.out.type = Entries(data)[C5_First(id)].type
            /\ \E j \in 1..Len(data'[C7_Collection(ret'.out.type)]) :
                  data'[C7_Collection(ret'.out.type)][j] = ret'.out]_vars

\* ------------------------------------------------ the store and a reader
MaxCount == 3

\* a stored snapshot with three videos, two of them of one date
ReadDoc ==
    Doc("object", CollKeys,
        <<Entry(101, "video", "a", 1, "absent"), Entry(102, "video", "b", 2, "absent"),
          Entry(13, "video", "c", 1, "absent")>>, <<>>, <<>>, <<>>, NoUrl)
\* a stored snapshot with a video and two streams, one of them with a flag
\* that is truthy but not the boolean true
LiveDoc ==
    Doc("object", CollKeys,
        <<Entry(101, "video", "a", 1, "absent")>>, <<>>, <<>>,
        <<Entry(1, "stream", "a", 1, "false"), Entry(2, "stream", "b", 2, "yes")>>,
        NoUrl)
ReadTypes == {"video", "stream", "bogus", "constructor"}

InitRead ==
    /\ StoreStart
    /\ MailStart
    /\ stored \in {PartialDoc, ReadDoc, LiveDoc}

\* one page: init() once, then reads, the caller's handling of what it was
\* given, and writes that keep every entry in its place
NextRead ==
    \/ data.kind = "null" /\ InitCall(1)
    \/ \E t \in ReadTypes : GetAllCall(t)
    \/ \E t \in ReadTypes, c \in 0..MaxCount : GetLatestCall(t, c)
    \/ IsLiveCall
    \/ \E id \in Ids, b \in BOOLEAN : SetLive(id, b)
    \/ \E e \in AddInputs :
         \E g \in (IF e.id = NoId THEN GenerateId(data) ELSE {NoId}) : Add(TRUE, e, g)
    \/ ret.op = "getAll" /\ \E j \in 1..MaxCount : CallerRemoves(j)
    \/ ret.op = "getAll" /\ CallerReverses
    \/ ret.op = "getAll" /\ CallerSetsTitle(1, "X")

SpecRead == InitRead /\ [][NextRead]_vars

\* C16: nothing the caller does to the array getAll returned (removing or
\* reordering elements, assigning a field of an entry in it) changes the
\* in-memory snapshot or what getAll, getStats or isLive return afterwards;
\* for a type outside the four, and before init, getAll returns [].
C16_DefensiveCopy ==
    /\ []((ret.op = "getAll" /\ (ret.res \notin ValidTypes \/ data.kind = "null"))
            => got = <<>>)
    /\ [][((\E j \in 1..MaxCount : CallerRemoves(j))
             \/ CallerReverses \/ CallerSetsTitle(1, "X")) =>
            /\ data' = data
            /\ \A t \in ReadTypes : GetAll(t)' = GetAll(t)
            /\ GetStats' = GetStats
            /\ IsLive' = IsLive]_vars

\* C17: getLatest(type, count) returns min(count, n) entries, newest date
\* first and entries of one date in stored order, and leaves the collection
\* as it is; so after add(e) the new entry is among getLatest(e.type, k)
\* exactly when fewer than k other entries of its type have a date not
\* earlier than its own, and it is all of getLatest(e.type, 1) when it is the
\* only entry.
C17_Rank(all, j) ==
    1 + Cardinality({i \in 1..Len(all) :
                       \/ all[i].date > all[j].date
                       \/ (all[i].date = all[j].date /\ i < j)})
C17_Has(seq, x) == \E j \in 1..Len(seq) : seq[j] = x
C17_LatestSorted ==
    /\ [][\A t \in ReadTypes, c \in 0..MaxCount :
            GetLatestCall(t, c) =>
               LET all == GetAll(t) IN
               /\ Len(got') = IF c < Len(all) THEN c ELSE Len(all)
               /\ \A j \in 1..Len(all) :
                    C17_Rank(all, j) <= c =>
                       got'[C17_Rank(all, j)] = <<TYPE_MAP(t), j>>
               /\ data' = data]_vars
    /\ []((ret.op = "add" /\ ret.res = "entry") =>
            LET key == C7_Collection(ret.out.type)
                n == Len(data[key])
                rivals == {j \in 1..(n - 1) : data[key][j].date >= ret.out.date}
            IN /\ \A k \in 0..MaxCount :
                    C17_Has(GetLatest(ret.out.type, k), <<key, n>>)
                       <=> Cardinality(rivals) < k
               /\ n = 1 => GetLatest(ret.out.type, 1) = << <<key, 1>> >>)

\* getLatest('video', 2) on three videos returned the one of the later date
\* and then the first of the two of the earlier date
C17_Witness ==
    /\ ret = Ret("getLatest", "video", BlankEntry)
    /\ got = << <<"videos", 2>>, <<"videos", 1>> >>
    /\ Len(data.videos) = 3

\* C18: isLive() is true exactly when some stream has isLive equal to the
\* boolean true; setLive(id, b) sets the flag of the first stream with that
\* id to b, leaves every other entry and field alone and returns that stream;
\* with an id no stream has, the id of a video included, it returns null and
\* changes nothing.
C18_LiveFlag ==
    /\ [](ret.op = "isLive" =>
            (ret.res = "true" <=>
               /\ data.kind # "null"
               /\ \E i \in 1..Len(data.streams) : data.streams[i].isLive = "true"))
    /\ [][\A id \in Ids, b \in BOOLEAN :
            SetLive(id, b) =>
               IF data.kind # "null"
                    /\ \E i \in 1..Len(data.streams) : data.streams[i].id = id
                 THEN LET p == CHOOSE i \in 1..Len(data.streams) :
                                  /\ data.streams[i].id = id
                                  /\ \A q \in 1..(i - 1) : data.streams[q].id # id
                      IN /\ data' = [data EXCEPT !.streams[p].isLive =
                                       IF b THEN "true" ELSE "false"]
                         /\ ret' = Ret("setLive", "entry", data'.streams[p])
                 ELSE /\ ret' = Ret("setLive", "null", BlankEntry)
                      /\ UNCHANGED <<data, stored, syncTimer>>]_vars

\* a second stream was marked live while the first one stayed live
C18_Witness ==
    /\ ret.op = "setLive" /\ ret.res = "entry"
    /\ Len(data.streams) = 2
    /\ data.streams[1].isLive = "true"
    /\ data.streams[2].isLive = "true"

\* ------------------------------------------------------- the login screen
InitLogin ==
    /\ StoreStart
    /\ MailStart
    /\ stored = NoText
    /\ storageOk

\* AdminPanel.init() is called, at most once per slot of init; the fetches of
\* an empty profile fail
NextLogin ==
    \/ \E i \in 1..MaxInit :
         /\ inits[i].pc = "idle"
         /\ Cardinality({j \in 1..MaxInit : inits[j].pc # "idle"}) < MaxPanelInits
         /\ InitCall(i)
    \/ \E i \in 1..MaxInit : Respond(i, Resp("neterr", NoText))
    \/ \E i \in 1..MaxInit : InitStep(i)
    \/ \E i \in 1..MaxInit : AdminReady(i)
    \/ \E via \in {"button", "enter"}, pass \in {"right", "wrong"} :
         LoginCall(via, pass)
    \/ \E i \in 1..MaxLogins : LoginSettles(i)
    \/ Logout
    \/ HideFires
    \/ IntervalFires
    \/ TimeAdvances

SpecLogin == InitLogin /\ [][NextLogin]_vars

\* C19: from the 5th failure in a row until 60 seconds have passed no login
\* is evaluated (the session flag is not set and no further failure is
\* counted) and exactly one countdown is running.
C19_Locked == lockAge \in 0..(LockSteps - 1)
C19_FullCooldown ==
    /\ [](C19_Locked => Len(intervals) = 1)
    /\ [][C19_Locked =>
            /\ authed' => authed
            /\ attempts' <= attempts]_vars

\* ------------------------------------------------------- the nuclear reset
\* the admin page of a profile whose local store holds a snapshot, with or
\* without Cloudinary credentials and a remembered mirror URL
InitNuke ==
    /\ data = NullData
    /\ storageOk \in BOOLEAN
    /\ cloudUrl \in {NoUrl, LocalUrl}
    /\ cloudCfg \in BOOLEAN
    /\ syncTimer = 0
    /\ uploads = 0
    /\ inits = [i \in 1..MaxInit |-> InitRec("idle", NoResp, NoUrl)]
    /\ today = 1
    /\ ret = Ret("none", "none", BlankEntry)
    /\ got = <<>>
    /\ other = NullData
    /\ exported = NoExport
    /\ AdminStart
    /\ MailStart
    /\ stored = PartialDoc

\* the descriptor is absent or valid, the mirror answers with the backup of
\* the content the store held or fails, the seed file is reachable
NextNuke ==
    \/ data = NullData /\ InitCall(1)
    \/ \E e \in AddInputs :
         \E g \in (IF e.id = NoId THEN GenerateId(data) ELSE {NoId}) :
           data.kind # "null" /\ Add(TRUE, e, g)
    \/ \E i \in 1..MaxInit : NuclearOk(i)
    \/ \E i \in 1..MaxInit :
         \E r \in {Resp("http", NoText)} \cup {Resp("body", b) : b \in ConfigTexts \ {Garbage}} :
           inits[i].pc = "config" /\ Respond(i, r)
    \/ \E i \in 1..MaxInit :
         \E r \in {Resp("neterr", NoText), Resp("http", NoText), Resp("body", PartialDoc)} :
           inits[i].pc = "mirror" /\ Respond(i, r)
    \/ \E i \in 1..MaxInit : inits[i].pc = "seed" /\ Respond(i, Resp("body", SeedDoc))
    \/ \E i \in 1..MaxInit : InitStep(i)
    \/ TimePasses

SpecNuke == InitNuke /\ [][NextNuke]_vars

\* C20: when the init() re-run by the nuclear reset resolves, with the seed
\* file reachable, the store holds the seed file's content, whether or not
\* credentials and a mirror URL are configured.
C20_SeedAfterReset ==
    [][\A i \in 1..MaxInit :
         InFlight(i) /\ inits'[i].pc = "done"
           => Colls(data') = Colls(EnsureStructure(SeedDoc))]_vars

\* --------------------------------------------- bootstrap and the mirror
\* a session in which no content is mutated: page loads and resets of a
\* profile with or without credentials and a remembered mirror URL
InitMirror ==
    /\ data = NullData
    /\ storageOk \in BOOLEAN
    /\ cloudUrl \in {NoUrl, LocalUrl}
    /\ cloudCfg \in BOOLEAN
    /\ syncTimer = 0
    /\ uploads = 0
    /\ inits = [i \in 1..MaxInit |-> InitRec("idle", NoResp, NoUrl)]
    /\ today = 1
    /\ ret = Ret("none", "none", BlankEntry)
    /\ got = <<>>
    /\ other = NullData
    /\ exported = NoExport
    /\ AdminStart
    /\ MailStart
    /\ stored \in {NoText, PartialDoc}

NextMirror ==
    \/ \E i \in 1..MaxInit : InitCall(i)
    \/ \E i \in 1..MaxInit : NuclearOk(i)
    \/ \E i \in 1..MaxInit, k \in {"neterr", "http"} : Respond(i, Resp(k, NoText))
    \/ \E i \in 1..MaxInit, b \in ConfigTexts \cup SnapshotTexts :
         Respond(i, Resp("body", b))
    \/ \E i \in 1..MaxInit : InitStep(i)
    \/ TimePasses
    \/ \E url \in {NoUrl, LocalUrl, RotatedUrl} : UploadSettles(url)

SpecMirror == InitMirror /\ [][NextMirror]_vars

\* C21: when the descriptor has been read and the mirror is fetched, it is
\* fetched from the remembered URL when one is remembered, and from the
\* descriptor's URL only when none is.
C21_RememberedFirst ==
    [][\A i \in 1..MaxInit :
         inits[i].pc = "config" /\ inits'[i].pc = "mirror"
           => inits'[i].url = IF cloudUrl # NoUrl
                                THEN cloudUrl
                                ELSE inits[i].resp.body.cloudBackupUrl]_vars

\* C29: in a session without any content mutation (bootstraps and resets
\* only) no upload to the mirror is ever started.
C29_NoUploadWithoutMutation == uploads = 0

\* ------------------------------------------------------ the mirror sync
\* a session of the admin page: content is added and deleted, the mirror URL
\* is saved or cleared in the settings, syncs fire and uploads settle
InitCloud ==
    /\ data = NullData
    /\ storageOk \in BOOLEAN
    /\ cloudUrl \in {NoUrl, LocalUrl}
    /\ cloudCfg \in BOOLEAN
    /\ syncTimer = 0
    /\ uploads = 0
    /\ inits = [i \in 1..MaxInit |-> InitRec("idle", NoResp, NoUrl)]
    /\ today = 1
    /\ ret = Ret("none", "none", BlankEntry)
    /\ got = <<>>
    /\ other = NullData
    /\ exported = NoExport
    /\ AdminStart
    /\ MailStart
    /\ stored = PartialDoc

NextCloud ==
    \/ data = NullData /\ InitCall(1)
    \/ \E e \in AddInputs :
         \E g \in (IF e.id = NoId THEN GenerateId(data) ELSE {NoId}) :
           data.kind # "null" /\ Add(TRUE, e, g)
    \/ \E id \in Ids : data.kind # "null" /\ Delete(id)
    \/ \E url \in {NoUrl, LocalUrl} : SetCloudJsonUrl(url)
    \/ TimePasses
    \/ \E url \in {NoUrl, LocalUrl, RotatedUrl} : UploadSettles(url)

SpecCloud == InitCloud /\ [][NextCloud]_vars

\* C22: an upload starts only when the sync timer fires with cloud name,
\* preset and mirror URL all present; a timer firing or an upload settling
\* leaves the in-memory and the persisted snapshot and the last call's
\* result alone; a settled upload starts no timer and no upload; the
\* remembered URL changes only by setCloudJsonUrl or by an upload that
\* settles with a URL, which it becomes; the store's calls stay possible
\* while an upload is in flight.
C22_SyncStep == uploads' # uploads \/ syncTimer' < syncTimer
C22_Step ==
    /\ (uploads' > uploads) =>
         (cloudCfg /\ cloudUrl # NoUrl /\ syncTimer > 0 /\ syncTimer' = 0)
    /\ C22_SyncStep => (data' = data /\ stored' = stored /\ ret' = ret)
    /\ (uploads' < uploads) =>
         (uploads' = uploads - 1 /\ syncTimer' = syncTimer)
    /\ (cloudUrl' # cloudUrl) =>
         (\/ uploads' < uploads /\ cloudUrl' # NoUrl /\ UploadSettles(cloudUrl')
          \/ ret'.op = "setCloudJsonUrl" /\ ~C22_SyncStep)
C22_SyncIsSilent ==
    /\ [][C22_Step]_vars
    /\ [](uploads > 0 /\ data.kind # "null" => ENABLED (\E id \in Ids : Delete(id)))

\* an upload has settled with a URL other than the remembered one
C22_Witness == cloudUrl = RotatedUrl /\ uploads = 0 /\ data.kind # "null"

\* C30: once the remembered mirror URL is absent it becomes present again
\* only by setCloudJsonUrl with a URL, also when an upload was in flight
\* when it was cleared.
C30_ClearedStaysCleared ==
    [][cloudUrl = NoUrl /\ cloudUrl' # NoUrl => SetCloudJsonUrl(cloudUrl')]_vars

\* C23: once some init() has resolved (the snapshot is in memory), no init()
\* starts the fetch sequence and no init() completion replaces the snapshot.
C23_Step ==
    data.kind # "null" =>
      \A i \in 1..MaxInit :
        /\ ~InFlight(i) => ~(inits'[i].pc \in {"config", "mirror", "seed"})
        /\ (InFlight(i) /\ inits'[i].pc = "done") => data' = data
C23_BootstrapOnce == [][C23_Step]_vars

\* C24: the loader moves only from not loaded to loading, and from loading
\* to loaded or back to not loaded; the flags are never both true; one
\* script at most is loading, and exactly while the loading flag is set; a
\* script is injected only when none is loading or loaded; calls made while
\* it loads wait for that load; a failed load rejects every waiting send and
\* clears the shared promise; once loaded, nothing is loaded again.
C24_Waiting == {i \in 1..MaxSends : sends[i].pc = "load"}
C24_State ==
    /\ ~(sdkLoaded /\ sdkLoading)
    /\ scripts = IF sdkLoading THEN 1 ELSE 0
    /\ sdkLoading <=> sdkLoadPromise = "pending"
    /\ C24_Waiting # {} => sdkLoading
C24_Step ==
    /\ <<sdkLoaded, sdkLoading, sdkLoaded', sdkLoading'>> \in
         { <<FALSE, FALSE, FALSE, FALSE>>, <<FALSE, FALSE, FALSE, TRUE>>,
           <<FALSE, TRUE, FALSE, TRUE>>, <<FALSE, TRUE, TRUE, FALSE>>,
           <<FALSE, TRUE, FALSE, FALSE>>, <<TRUE, FALSE, TRUE, FALSE>> }
    /\ (scripts' > scripts) => (~sdkLoaded /\ ~sdkLoading /\ scripts = 0)
    /\ (sdkLoading /\ ~sdkLoading') =>
         (\A i \in C24_Waiting :
            IF sdkLoaded' /\ emailjs'
              THEN sends'[i] = [sends[i] EXCEPT !.pc = "relay"]
              ELSE sends'[i] = NoSend)
    /\ (sdkLoading /\ ~sdkLoading' /\ ~sdkLoaded') => sdkLoadPromise' = "null"
    /\ (sdkLoading /\ sdkLoading') =>
         (\A i \in C24_Waiting : sends'[i] = sends[i])
C24_OneLoad == [](C24_State) /\ [][C24_Step]_vars

\* two sends wait for the one load in flight
C24_Witness ==
    /\ scripts = 1 /\ sdkLoading
    /\ \A i \in 1..MaxSends : sends[i].pc = "load"

\* C28: the history never holds more than 10 records of the current day,
\* however sends, loads and relay completions interleave.
C28_QuotaUnderOverlap == countSentToday <= MAX_MESSAGES_PER_DAY

\* C25: a sync timer is started only by a step that persisted the snapshot:
\* whenever a timer is started, localStorage holds the text of _data.
C25_SyncOnlyAfterPersist ==
    [][syncTimer' > syncTimer => stored' = Stringify(data')]_vars

\* C27: while storage writes succeed, after every add, update, delete,
\* setLive and import that changed the snapshot of a store that has been
\* initialised, a reload (parse and
\* _ensureStructure of the persisted text) yields the collections in memory.
C27_Mutations == {"add", "update", "delete", "setLive", "import"}
C27_ReadAfterWrite ==
    [][(storageOk /\ data.kind # "null" /\ ret'.op \in C27_Mutations /\ data' # data)
         => /\ ParseOk(stored')
            /\ Colls(EnsureStructure(stored')) = Colls(data')]_vars

\* ------------------------------------------------------------- two tabs
OtherInputs == {Entry(NoId, "video", "o", NoDate, "absent")}

InitTabs ==
    /\ StoreStart
    /\ MailStart
    /\ stored = PartialDoc

NextTabs ==
    \/ InitCall(1)
    \/ \E e \in AddInputs :
         \E g \in (IF e.id = NoId THEN GenerateId(data) ELSE {NoId}) :
           Add(TRUE, e, g)
    \/ \E id \in Ids : Delete(id)
    \/ OtherInit
    \/ \E e \in OtherInputs, g \in GenerateId(other) : OtherAdd(e, g)
    \/ TimePasses

SpecTabs == InitTabs /\ [][NextTabs]_vars

\* C26: each tab's in-memory snapshot changes only by that tab's own calls:
\* its init loads what is persisted, its add appends its own entry to what
\* the tab held, and no call of one tab refreshes the other tab's snapshot;
\* whenever the persisted snapshot changes it becomes the in-memory snapshot
\* of the tab that wrote, so what the other tab persisted before is gone
\* unless the writer held it.
C26_Prefix(a, b) == Len(a) <= Len(b) /\ SubSeq(b, 1, Len(a)) = a
C26_Step ==
    LET base == IF other.kind = "null" THEN EnsureStructure(EmptyObject) ELSE other IN
    /\ (other' # other) => (data' = data /\ ret' = ret)
    /\ (other' # other) =>
         \/ other' = EnsureStructure(stored) /\ stored' = stored
         \/ /\ Count(other') = Count(base) + 1
            /\ \A k \in CollKeys : C26_Prefix(base[k], other'[k])
    /\ (stored' # stored) =>
         (stored' = IF other' # other THEN Stringify(other') ELSE Stringify(data'))
C26_LastWriteWins == [][C26_Step]_vars

\* both tabs added an entry; the second tab wrote last and the persisted
\* snapshot holds its entry and not the first tab's
C26_Witness ==
    /\ data.kind = "object" /\ other.kind = "object"
    /\ stored = Stringify(other)
    /\ Len(other.videos) = 1 /\ Len(data.videos) = 1
    /\ other.videos[1].title = "o" /\ data.videos[1].title # "o"
    /\ stored.videos = other.videos
====
